---- MODULE Spec2Model ----
(***************************************************************************)
(* A model of the bintrans binary codec: the bit stream helpers of         *)
(* src/__init__.py (bintools) and the field classes of src/field.py.       *)
(*                                                                         *)
(* A Python call is modelled by an operator that returns an outcome        *)
(* record [err, ret, stream, warns]: the exception raised ("none" when the *)
(* call returns), the returned values as a sequence, the caller's          *)
(* bytearray after the call, and the number of dbg.warning() emissions.    *)
(***************************************************************************)
EXTENDS Integers, Sequences, FiniteSets, TLC

VARIABLES
    stream,   \* the caller's bytearray, mutated in place by consuming reads
    pre,      \* the bytearray as it was when the last call was made
    start,    \* the bytearray as it was when the current decode began
    call,     \* the last call: its name and arguments
    ret,      \* what the last call returned (a sequence of values)
    err,      \* the exception the last call raised, "none" if it returned
    warns,    \* dbg.warning() emissions of the last call
    value,    \* Field.value, the raw stored value of the field
    fields,   \* ProtocolBlock.fields, the ordered mapping from key to field
    frames    \* the from_bytes calls that have not returned yet, outermost first

vars == <<stream, pre, start, call, ret, err, warns, value, fields, frames>>

----------------------------------------------------------------------------
(* Bounds of the model *)

MaxLen == 2          \* longest bytearray handed to the codec
MaxMaskBits == 9     \* largest num_bits / offset given to get_mask
Slack == 3           \* how far beyond the hard bounds assigned values reach
NumFlags == 3        \* named flags of the MaskField
size == 4            \* the size a ReservedField is constructed with
MaxList == 3         \* longest list given to a BlockListField
MaxDepth == 2        \* deepest nesting of blocks in a ProtocolBlock
RecursionLimit == 4  \* frames the interpreter allows before RecursionError

ByteSet == {0, 203, 223}

RECURSIVE SeqsUpTo(_, _)
SeqsUpTo(S, n) ==
    IF n = 0 THEN {<<>>}
    ELSE LET shorter == SeqsUpTo(S, n - 1)
         IN  shorter \cup {Append(s, x) : s \in {t \in shorter : Len(t) = n - 1}, x \in S}

Buffers == SeqsUpTo(ByteSet, MaxLen)

Endians == {"little", "big", "middle"}

SliceLists ==
    { <<>>, <<8>>, <<3>>, <<4, 4>>, <<8, 8>>, <<1, 15>>, <<5, 3, 7, 1>>,
      <<4, 7, 5>>, <<4, 4, 6>>, <<12, 12>>, <<16, 9>>, <<32>> }

----------------------------------------------------------------------------
(* Outcomes of a call *)

Returns(r, s, w) == [err |-> "none", ret |-> r, stream |-> s, warns |-> w]
Raises(e, s, w)  == [err |-> e, ret |-> <<>>, stream |-> s, warns |-> w]

NoCall == [op |-> "none", n |-> 0, offset |-> 0, widths |-> <<>>,
           consume |-> FALSE, signed |-> FALSE, endianness |-> "little",
           args |-> <<>>]

\* an optional argument: None, or a value
None == <<>>
\* Python's "x or y": y when x is None or 0
OrElse(x, y) == IF x = None THEN y ELSE IF x[1] = 0 THEN y ELSE x[1]

Reverse(s) == [i \in 1..Len(s) |-> s[Len(s) + 1 - i]]

RECURSIVE SumSeq(_)
SumSeq(s) == IF s = <<>> THEN 0 ELSE Head(s) + SumSeq(Tail(s))

Min(a, b) == IF a < b THEN a ELSE b

\* Python's a & b on non-negative integers
RECURSIVE BitAnd(_, _)
BitAnd(a, b) ==
    IF a = 0 \/ b = 0 THEN 0
    ELSE (a % 2) * (b % 2) + 2 * BitAnd(a \div 2, b \div 2)

----------------------------------------------------------------------------
(* get_mask *)

RECURSIVE SumPow2(_)
SumPow2(n) == IF n <= 0 THEN 0 ELSE 2^(n - 1) + SumPow2(n - 1)

get_mask_inclusive(num_bits, offset) == SumPow2(num_bits + 1) * 2^offset

\* sum([2**i for i in range(num_bits)]) << offset
get_mask(num_bits, offset) == SumPow2(num_bits) * 2^offset

----------------------------------------------------------------------------
(* peek_bytes, pop_bytes *)

\* [stream[i] for i in range(num)]: stream[i] raises IndexError at i = len
RECURSIVE peek_loop(_, _, _, _)
peek_loop(s, num, i, acc) ==
    IF i >= num THEN Returns(acc, s, 0)
    ELSE IF i >= Len(s) THEN Raises("IndexError", s, 0)
    ELSE peek_loop(s, num, i + 1, Append(acc, s[i + 1]))

peek_bytes(s, num) == peek_loop(s, num, 0, <<>>)

\* [stream.pop(0) for _ in range(num)]: each pop(0) removes the front byte
\* at once; pop(0) of an empty bytearray raises IndexError
RECURSIVE pop_loop(_, _, _)
pop_loop(s, num, acc) ==
    IF num <= 0 THEN Returns(acc, s, 0)
    ELSE IF s = <<>> THEN Raises("IndexError", s, 0)
    ELSE pop_loop(Tail(s), num - 1, Append(acc, Head(s)))

\* stream.pop() in place of stream.pop(0): bytes taken from the end
RECURSIVE pop_last_loop(_, _, _)
pop_last_loop(s, num, acc) ==
    IF num <= 0 THEN Returns(acc, s, 0)
    ELSE IF s = <<>> THEN Raises("IndexError", s, 0)
    ELSE pop_last_loop(SubSeq(s, 1, Len(s) - 1), num - 1, Append(acc, s[Len(s)]))

pop_bytes_last(s, num) == pop_last_loop(s, num, <<>>)

pop_bytes(s, num) == pop_loop(s, num, <<>>)

\* pop_bytes whatever consume is
_consumption_method_pop(consume, s, num) == pop_bytes(s, num)

\* peek_bytes whatever consume is
_consumption_method_peek(consume, s, num) == peek_bytes(s, num)

_consumption_method(consume, s, num) ==
    IF consume THEN pop_bytes(s, num) ELSE peek_bytes(s, num)

----------------------------------------------------------------------------
(* get_int *)

\* int.from_bytes(mybytes, byteorder = "big", signed = False)
RECURSIVE BigUnsigned(_, _)
BigUnsigned(bs, acc) ==
    IF bs = <<>> THEN acc ELSE BigUnsigned(Tail(bs), acc * 256 + Head(bs))

int_from_bytes(bs, endianness, signed) ==
    LET u == BigUnsigned(IF endianness = "little" THEN Reverse(bs) ELSE bs, 0)
        n == Len(bs)
    IN  IF signed /\ n > 0 /\ u >= 2^(8 * n - 1) THEN u - 2^(8 * n) ELSE u

get_int(s, num_bytes, signed, consume, endianness) ==
    LET got == _consumption_method(consume, s, num_bytes)
    IN  IF got.err # "none" THEN got
        ELSE IF endianness \notin {"little", "big"}
             THEN Raises("ValueError", got.stream, 0)
        ELSE Returns(<<int_from_bytes(got.ret, endianness, signed)>>, got.stream, 0)

----------------------------------------------------------------------------
(* get_string. A character is the record of its code point. *)

chr(i) == [codepoint |-> i]

\* while len(stream) > 0: new_char = get_int(stream); mystring += chr(new_char)
\* and the two tests that break out of the loop
RECURSIVE string_loop(_, _, _, _)
string_loop(s, mystring, length, null_terminated) ==
    IF Len(s) = 0 THEN Returns(<<mystring>>, s, 0)
    ELSE LET got == get_int(s, 1, FALSE, TRUE, "little")
             new_char == got.ret[1]
             longer == Append(mystring, chr(new_char))
         IN  IF got.err # "none" THEN got
             ELSE IF length # None /\ Len(longer) >= length[1]
             THEN Returns(<<longer>>, got.stream, 0)
             ELSE IF null_terminated /\ new_char = 0
             THEN Returns(<<longer>>, got.stream, 0)
             ELSE string_loop(got.stream, longer, length, null_terminated)

\* length is None or <<k>>; a call that does not consume works on
\* stream.copy() and the caller's bytearray stays as it was
get_string(s, length, null_terminated, consume) ==
    IF length # None /\ length[1] < 0 THEN Raises("IndexError", s, 0)
    ELSE LET out == string_loop(s, <<>>, length, null_terminated)
         IN  IF consume THEN out ELSE [out EXCEPT !.stream = s]

----------------------------------------------------------------------------
(* split_bits *)

\* the segments in the order they were cut, whatever the endianness
_order_bytes_as_cut(mybytes, endianness) == Returns(mybytes, <<>>, 0)

_order_bytes(mybytes, endianness) ==
    IF endianness = "little" THEN Returns(Reverse(mybytes), <<>>, 0)
    ELSE IF endianness = "big" THEN Returns(mybytes, <<>>, 0)
    ELSE Raises("NameError", <<>>, 0)

\* the while loop of one slice: (value, width) segments cut from the low end
\* of the working byte, a new byte fetched when none of it is consumed
RECURSIVE take_segments(_, _, _, _, _, _)
take_segments(mybytes, working_byte, working_byte_bits_consumed, slice_length, slice_bits_consumed, segments) ==
    IF slice_bits_consumed >= slice_length
    THEN [err |-> "none", mybytes |-> mybytes, working_byte |-> working_byte,
          consumed |-> working_byte_bits_consumed, segments |-> segments]
    ELSE IF working_byte_bits_consumed = 0 /\ mybytes = <<>>
    THEN [err |-> "IndexError", mybytes |-> mybytes, working_byte |-> working_byte,
          consumed |-> working_byte_bits_consumed, segments |-> segments]
    ELSE LET fetch   == working_byte_bits_consumed = 0
             byte    == IF fetch THEN Head(mybytes) ELSE working_byte
             rest    == IF fetch THEN Tail(mybytes) ELSE mybytes
             capped_slice_length ==
                 Min(slice_length - slice_bits_consumed, 8 - working_byte_bits_consumed)
             mask    == get_mask(capped_slice_length, 0)
             segment == <<BitAnd(byte, mask), capped_slice_length>>
         IN  take_segments(rest, byte \div 2^capped_slice_length,
                           (working_byte_bits_consumed + capped_slice_length) % 8,
                           slice_length, slice_bits_consumed + capped_slice_length,
                           Append(segments, segment))

\* myslice <<= n; myslice += v, over the ordered segments
RECURSIVE combine_segments(_, _)
combine_segments(segments, myslice) ==
    IF segments = <<>> THEN myslice
    ELSE combine_segments(Tail(segments),
                          myslice * 2^(Head(segments)[2]) + Head(segments)[1])

\* the for loop over slice_lengths
RECURSIVE slice_loop(_, _, _, _, _, _)
slice_loop(slice_lengths, mybytes, working_byte, working_byte_bits_consumed, endianness, slices) ==
    IF slice_lengths = <<>> THEN [err |-> "none", ret |-> slices]
    ELSE LET t == take_segments(mybytes, working_byte, working_byte_bits_consumed,
                                Head(slice_lengths), 0, <<>>)
             o == _order_bytes(t.segments, endianness)
         IN  IF t.err # "none" THEN [err |-> t.err, ret |-> <<>>]
             ELSE IF o.err # "none" THEN [err |-> o.err, ret |-> <<>>]
             ELSE slice_loop(Tail(slice_lengths), t.mybytes, t.working_byte,
                             t.consumed, endianness,
                             Append(slices, combine_segments(o.ret, 0)))

bytes_required_floor(bits_requested) == bits_requested \div 8

\* math.ceil(bits_requested / 8)
bytes_required_for(bits_requested) == (bits_requested + 7) \div 8

\* split_bits after its check of the bytes provided: the warning, the read
\* of bytes_required bytes and the slicing
split_bits_read(s, slice_lengths, consume, endianness) ==
    LET bits_requested == SumSeq(slice_lengths)
        bytes_required == bytes_required_for(bits_requested)
        w   == IF bits_requested % 8 # 0 THEN 1 ELSE 0
        got == _consumption_method(consume, s, bytes_required)
        out == slice_loop(slice_lengths, got.ret, 0, 0, endianness, <<>>)
    IN  IF got.err # "none" THEN Raises(got.err, got.stream, w)
        ELSE IF out.err # "none" THEN Raises(out.err, got.stream, w)
        ELSE Returns(out.ret, got.stream, w)

\* split_bits without its test of bytes_required against the bytes provided
split_bits_unchecked(s, slice_lengths, consume, endianness) ==
    split_bits_read(s, slice_lengths, consume, endianness)

split_bits(s, slice_lengths, consume, endianness) ==
    LET bits_requested == SumSeq(slice_lengths)
        bytes_required == bytes_required_for(bits_requested)
        bytes_provided == Len(s)
    IN  IF bytes_required > bytes_provided THEN Raises("OverflowError", s, 0)
        ELSE split_bits_read(s, slice_lengths, consume, endianness)

----------------------------------------------------------------------------
(* pack_int *)

Abs(v) == IF v < 0 THEN -v ELSE v

\* int.bit_length(): the bits of the absolute value
RECURSIVE bit_length(_)
bit_length(v) == IF Abs(v) = 0 THEN 0 ELSE 1 + bit_length(Abs(v) \div 2)

RECURSIVE BigBytes(_, _)
BigBytes(u, n) == IF n = 0 THEN <<>> ELSE Append(BigBytes(u \div 256, n - 1), u % 256)

\* int.to_bytes(length, byteorder, signed = ...)
int_to_bytes(v, length, endianness, signed) ==
    IF endianness \notin {"little", "big"} THEN Raises("ValueError", <<>>, 0)
    ELSE IF ~signed /\ v < 0 THEN Raises("OverflowError", <<>>, 0)
    ELSE IF ~signed /\ bit_length(v) > 8 * length THEN Raises("OverflowError", <<>>, 0)
    ELSE IF signed /\ (length = 0 /\ v # 0) THEN Raises("OverflowError", <<>>, 0)
    ELSE IF signed /\ length > 0 /\ (v < -(2^(8 * length - 1)) \/ v >= 2^(8 * length - 1))
         THEN Raises("OverflowError", <<>>, 0)
    ELSE LET big == BigBytes(IF v >= 0 THEN v ELSE v % 2^(8 * length), length)
         IN  Returns(IF endianness = "little" THEN Reverse(big) ELSE big, <<>>, 0)

pack_int(v, num_bytes, signed, endianness) ==
    IF num_bytes < 1 \/ bit_length(v) > num_bytes * 8
    THEN Raises("OverflowError", <<>>, 0)
    ELSE int_to_bytes(v, num_bytes, endianness, signed)

----------------------------------------------------------------------------
(* pack_partial_int, merge_bits *)

\* value <<= offset, then to_bytes of the bytes that hold num_bits + offset
pack_partial_int(v, num_bits, signed, endianness, offset) ==
    LET shifted == v * 2^offset
        bits_needed == num_bits + offset
    IN  IF bits_needed < 1 \/ bit_length(shifted) > bits_needed
        THEN Raises("OverflowError", <<>>, 0)
        ELSE int_to_bytes(shifted, (bits_needed + 7) \div 8, endianness, signed)

\* Python's a | b on non-negative integers
BitOr(a, b) == a + b - BitAnd(a, b)

\* pack_partial_int at offset 0 for every pair: no pair shares a byte
RECURSIVE merge_loop_aligned(_, _, _, _, _)
merge_loop_aligned(values, endianness, i, mybytes, w) ==
    IF i > Len(values) THEN Returns(mybytes, <<>>, w)
    ELSE LET new_bytes == pack_partial_int(values[i][1], values[i][2], FALSE, endianness, 0)
         IN  IF new_bytes.err # "none" THEN Raises(new_bytes.err, <<>>, w)
             ELSE merge_loop_aligned(values, endianness, i + 1, mybytes \o new_bytes.ret, w)

\* the for loop of merge_bits: values is a sequence of <<value, length>>
RECURSIVE merge_loop(_, _, _, _, _)
merge_loop(values, endianness, i, mybytes, w) ==
    IF i > Len(values) THEN Returns(mybytes, <<>>, w)
    ELSE LET offset == SumSeq([k \in 1..(i - 1) |-> values[k][2]]) % 8
             new_bytes == pack_partial_int(values[i][1], values[i][2], FALSE, endianness, offset)
         IN  IF new_bytes.err # "none" THEN Raises(new_bytes.err, <<>>, w)
             ELSE IF offset # 0
             THEN IF mybytes = <<>> THEN Raises("IndexError", <<>>, w)
                  ELSE LET last == Len(mybytes)
                           merged == [mybytes EXCEPT ![last] = BitOr(mybytes[last], new_bytes.ret[1])]
                       IN  merge_loop(values, endianness, i + 1,
                                      merged \o Tail(new_bytes.ret), w)
             ELSE merge_loop(values, endianness, i + 1, mybytes \o new_bytes.ret, w)

merge_bits_aligned(values, endianness) ==
    merge_loop_aligned(values, endianness, 1, <<>>, 0)

merge_bits(values, endianness) ==
    LET bits_to_pack == SumSeq([k \in 1..Len(values) |-> values[k][2]])
    IN  merge_loop(values, endianness, 1, <<>>, IF bits_to_pack % 8 # 0 THEN 1 ELSE 0)

----------------------------------------------------------------------------
(* IntField *)

BIT_LENGTH == 8
SIGNED == FALSE
DEFAULT == 0

BIT_LENGTH_MINIMUM == IF SIGNED THEN -(2^(BIT_LENGTH - 1)) ELSE 0
BIT_LENGTH_MAXIMUM == IF SIGNED THEN 2^(BIT_LENGTH - 1) - 1 ELSE 2^BIT_LENGTH - 1
MINIMUM == BIT_LENGTH_MINIMUM
MAXIMUM == BIT_LENGTH_MAXIMUM

\* the two hard-bound tests with the comparison turned to >= and <=
hard_bounds_strict(val, bit_min, bit_max) ==
    IF val >= bit_max THEN "OverflowError"
    ELSE IF val <= bit_min THEN "OverflowError"
    ELSE "none"

\* if val > bit_max: raise OverflowError; if val < bit_min: raise OverflowError
hard_bounds(val, bit_min, bit_max) ==
    IF val > bit_max THEN "OverflowError"
    ELSE IF val < bit_min THEN "OverflowError"
    ELSE "none"

\* IntField.validate is a classmethod: cls holds the class attributes its
\* defaults are read from, those of IntField or of the subclass it is called on
validate_of(cls, val, bit_min_arg, bit_max_arg, min_arg, max_arg) ==
    LET bit_min == OrElse(bit_min_arg, cls.BIT_LENGTH_MINIMUM)
        bit_max == OrElse(bit_max_arg, cls.BIT_LENGTH_MAXIMUM)
        min     == OrElse(min_arg, cls.MINIMUM)
        max     == OrElse(max_arg, cls.MAXIMUM)
        hard    == hard_bounds(val, bit_min, bit_max)
        w       == (IF val < min THEN 1 ELSE 0) + (IF val > max THEN 1 ELSE 0)
    IN  IF hard # "none" THEN Raises(hard, <<>>, 0)
        ELSE Returns(<<val>>, <<>>, w)

IntField_class ==
    [BIT_LENGTH_MINIMUM |-> BIT_LENGTH_MINIMUM, BIT_LENGTH_MAXIMUM |-> BIT_LENGTH_MAXIMUM,
     MINIMUM |-> MINIMUM, MAXIMUM |-> MAXIMUM]

IntField_validate(val, bit_min_arg, bit_max_arg, min_arg, max_arg) ==
    validate_of(IntField_class, val, bit_min_arg, bit_max_arg, min_arg, max_arg)

IntField_from_bytes(s, num_bytes, signed, consume, endianness) ==
    IF num_bytes % 8 = 0
    THEN get_int(s, num_bytes, signed, consume, endianness)
    ELSE Raises("ValueError", s, 0)

\* math.ceil(self.bit_length / 8)
FieldBytes == (BIT_LENGTH + 7) \div 8

IntField_to_bytes(v) == pack_int(v, FieldBytes, SIGNED, "little")

----------------------------------------------------------------------------
(* PackedIntField, as configured with UNPACKED_MINIMUM = 0 and              *)
(* UNPACKED_RESOLUTION = 0.5. Human values are exact rationals, held in     *)
(* quarters: the integer q stands for the human value q/4, so that 0.5 is   *)
(* 2, 1.25 is 5 and 1.5 is 6. Raw values are plain integers.                *)

RESOLUTION == 1
UNPACKED_RESOLUTION == 2
UNPACKED_MINIMUM == 4 * BIT_LENGTH_MINIMUM
UNPACKED_MAXIMUM == UNPACKED_MINIMUM + BIT_LENGTH_MAXIMUM * UNPACKED_RESOLUTION

\* pack with int() applied to the quotient and no test that it is whole
PackedIntField_pack_truncating(val) ==
    LET packed == (val - UNPACKED_MINIMUM) \div UNPACKED_RESOLUTION
    IN  IF packed > BIT_LENGTH_MAXIMUM THEN Raises("ValueError", <<>>, 0)
        ELSE IF packed < BIT_LENGTH_MINIMUM THEN Raises("ValueError", <<>>, 0)
        ELSE Returns(<<packed>>, <<>>, 0)

\* packed = (val - UNPACKED_MINIMUM) / UNPACKED_RESOLUTION is whole exactly
\* when the difference is a multiple of the resolution
PackedIntField_pack(val) ==
    LET whole  == (val - UNPACKED_MINIMUM) % UNPACKED_RESOLUTION = 0
        packed == (val - UNPACKED_MINIMUM) \div UNPACKED_RESOLUTION
    IN  IF ~whole THEN Raises("ValueError", <<>>, 0)
        ELSE IF packed > BIT_LENGTH_MAXIMUM THEN Raises("ValueError", <<>>, 0)
        ELSE IF packed < BIT_LENGTH_MINIMUM THEN Raises("ValueError", <<>>, 0)
        ELSE Returns(<<packed>>, <<>>, 0)

PackedIntField_MINIMUM == PackedIntField_pack(UNPACKED_MINIMUM)
PackedIntField_MAXIMUM == PackedIntField_pack(UNPACKED_MAXIMUM)

PackedIntField_validate(val, min_arg, max_arg, res_arg) ==
    LET bit_min == BIT_LENGTH_MINIMUM
        bit_max == BIT_LENGTH_MAXIMUM
        lo      == IF min_arg = None \/ min_arg[1] = 0
                   THEN PackedIntField_MINIMUM ELSE Returns(min_arg, <<>>, 0)
        hi      == IF max_arg = None \/ max_arg[1] = 0
                   THEN PackedIntField_MAXIMUM ELSE Returns(max_arg, <<>>, 0)
        res     == OrElse(res_arg, RESOLUTION)
        hard    == hard_bounds(val, bit_min, bit_max)
    IN  IF lo.err # "none" THEN Raises(lo.err, <<>>, 0)
        ELSE IF hi.err # "none" THEN Raises(hi.err, <<>>, 0)
        ELSE IF hard # "none" THEN Raises(hard, <<>>, 0)
        ELSE LET w == (IF val < lo.ret[1] THEN 1 ELSE 0) + (IF val > hi.ret[1] THEN 1 ELSE 0)
             IN  IF val > hi.ret[1] THEN Returns(<<val>>, <<>>, w)
                 ELSE IF val % res # 0 THEN Raises("ValueError", <<>>, w)
                 ELSE Returns(<<val>>, <<>>, w)

Max(a, b) == IF a > b THEN a ELSE b

\* bound(UNPACKED_MINIMUM + self.value * UNPACKED_RESOLUTION)
PackedIntField_enrich(v) ==
    LET unpacked_value == UNPACKED_MINIMUM + v * UNPACKED_RESOLUTION
    IN  Max(Min(unpacked_value, UNPACKED_MAXIMUM), UNPACKED_MINIMUM)

----------------------------------------------------------------------------
(* DynamicLengthIntField and ReservedField: the width is the size given to  *)
(* the constructor                                                          *)

ReservedField_MAXIMUM == 0

ReservedField_class ==
    [BIT_LENGTH_MINIMUM |-> BIT_LENGTH_MINIMUM, BIT_LENGTH_MAXIMUM |-> BIT_LENGTH_MAXIMUM,
     MINIMUM |-> MINIMUM, MAXIMUM |-> ReservedField_MAXIMUM]

\* the instance property bit_length_maximum
bit_length_maximum == IF SIGNED THEN 2^(size - 1) - 1 ELSE 2^size - 1

\* super().validate(value, bit_max = 2 ** self.size), called on an instance
\* of the class cls
DynamicLengthIntField_validate(cls, val) ==
    validate_of(cls, val, None, <<2^size>>, None, None)

----------------------------------------------------------------------------
(* EnumField, as configured with the named values LOW = 2, MID = 3 and      *)
(* HIGH = 5 in the 8 bits of IntField                                       *)

\* class EnumValues(Enum), in definition order
EnumValues ==
    <<[name |-> "LOW", value |-> 2], [name |-> "MID", value |-> 3],
      [name |-> "HIGH", value |-> 5]>>

\* MAXIMUM of an EnumField with no named values
EnumField_MAXIMUM_of_width == BIT_LENGTH_MAXIMUM

EnumField_MINIMUM ==
    IF Len(EnumValues) = 0 THEN BIT_LENGTH_MINIMUM
    ELSE CHOOSE m \in {EnumValues[i].value : i \in 1..Len(EnumValues)} :
             \A i \in 1..Len(EnumValues) : m <= EnumValues[i].value

EnumField_MAXIMUM ==
    IF Len(EnumValues) = 0 THEN BIT_LENGTH_MAXIMUM
    ELSE CHOOSE m \in {EnumValues[i].value : i \in 1..Len(EnumValues)} :
             \A i \in 1..Len(EnumValues) : m >= EnumValues[i].value

EnumField_class ==
    [BIT_LENGTH_MINIMUM |-> BIT_LENGTH_MINIMUM, BIT_LENGTH_MAXIMUM |-> BIT_LENGTH_MAXIMUM,
     MINIMUM |-> EnumField_MINIMUM, MAXIMUM |-> EnumField_MAXIMUM]

\* try: return cls.EnumValues(val).value; except ValueError: return
\* super().validate(val)
EnumField_validate(val) ==
    IF \E i \in 1..Len(EnumValues) : EnumValues[i].value = val
    THEN Returns(<<val>>, <<>>, 0)
    ELSE validate_of(EnumField_class, val, None, None, None, None)

----------------------------------------------------------------------------
(* MaskField, as configured with NumFlags single-bit flags A = 1, B = 2,    *)
(* C = 4, ...                                                               *)

FlagNames == <<"A", "B", "C", "D", "E", "F">>

\* class Flags(IntFlag), in definition order
Flags == [i \in 1..NumFlags |-> [name |-> FlagNames[i], value |-> 2^(i - 1)]]

\* BIT_LENGTH = len(cls.Flags)
MaskField_BIT_LENGTH == Len(Flags)

MaskField_class ==
    [BIT_LENGTH_MINIMUM |-> 0, BIT_LENGTH_MAXIMUM |-> 2^MaskField_BIT_LENGTH - 1,
     MINIMUM |-> 0, MAXIMUM |-> 2^MaskField_BIT_LENGTH - 1]

\* every entry tells whether the lowest bit of the value is set
MaskField_enrich_low_bit(v) ==
    [k \in {Flags[i].name : i \in 1..Len(Flags)} |-> BitAnd(v, 1) # 0]

\* {f.name: self.value & f.value != 0 for f in self.Flags}; & binds tighter
\* than !=
MaskField_enrich(v) ==
    [k \in {Flags[i].name : i \in 1..Len(Flags)} |->
        LET f == Flags[CHOOSE i \in 1..Len(Flags) : Flags[i].name = k]
        IN  BitAnd(v, f.value) # 0]

\* self.MASK: neither MaskField nor a class it inherits from defines MASK,
\* and no instance is given one
MaskField_MASK == Raises("AttributeError", <<>>, 0)

\* (self.value & val) & self.MASK
MaskField_and(v, val) == MaskField_MASK
\* (self.value | val) & self.MASK
MaskField_or(v, val) == MaskField_MASK
\* (self.value ^ val) & self.MASK
MaskField_xor(v, val) == MaskField_MASK
\* (~self.value) & self.MASK
MaskField_invert(v) == MaskField_MASK

\* (self.value << places) & bintools.get_mask(self.BIT_LENGTH); a negative
\* shift count raises ValueError
MaskField_lshift(v, places) ==
    IF places < 0 THEN Raises("ValueError", <<>>, 0)
    ELSE Returns(<<BitAnd(v * 2^places, get_mask(MaskField_BIT_LENGTH, 0))>>, <<>>, 0)

\* (self.value >> places) & bintools.get_mask(self.BIT_LENGTH)
MaskField_rshift(v, places) ==
    IF places < 0 THEN Raises("ValueError", <<>>, 0)
    ELSE Returns(<<BitAnd(v \div 2^places, get_mask(MaskField_BIT_LENGTH, 0))>>, <<>>, 0)

----------------------------------------------------------------------------
(* TimeField: the seconds since midnight, in 17 bits. A Python str is a    *)
(* sequence of one-character strings.                                       *)

TimeField_BIT_LENGTH == 17
TimeField_MINIMUM == 0
TimeField_MAXIMUM == 24 * 60 * 60
INVALID_TIME == 131071
TimeField_BIT_LENGTH_MINIMUM == IF SIGNED THEN -(2^(TimeField_BIT_LENGTH - 1)) ELSE 0
TimeField_BIT_LENGTH_MAXIMUM ==
    IF SIGNED THEN 2^(TimeField_BIT_LENGTH - 1) - 1 ELSE 2^TimeField_BIT_LENGTH - 1

\* validate of an int
TimeField_validate(val) ==
    IF val = INVALID_TIME THEN Returns(<<val>>, <<>>, 0)
    ELSE IF val < TimeField_BIT_LENGTH_MINIMUM \/ val > TimeField_BIT_LENGTH_MAXIMUM
    THEN Raises("OverflowError", <<>>, 0)
    ELSE Returns(<<val>>, <<>>,
                 IF val < TimeField_MINIMUM \/ val > TimeField_MAXIMUM THEN 1 ELSE 0)

\* EPOCH + timedelta(seconds = v): EPOCH is a midnight, so the sum is the
\* day v // 86400 after EPOCH at v % 86400 seconds into that day
SECONDS_PER_DAY == 24 * 60 * 60
datetime_add(v) == [day |-> v \div SECONDS_PER_DAY, second |-> v % SECONDS_PER_DAY]

DecimalDigits == <<"0", "1", "2", "3", "4", "5", "6", "7", "8", "9">>

\* %H, %M and %S: a number below 100 zero-padded to two digits
two_digits(k) == <<DecimalDigits[(k \div 10) + 1], DecimalDigits[(k % 10) + 1]>>

\* strftime("%H:%M:%S")
strftime(d) ==
    two_digits(d.second \div 3600) \o <<":">>
        \o two_digits((d.second \div 60) % 60) \o <<":">>
        \o two_digits(d.second % 60)

INVALID_TIME_TEXT == <<"I", "N", "V", "A", "L", "I", "D", "_", "T", "I", "M", "E">>

\* enrich with no test for INVALID_TIME
TimeField_enrich_unguarded(v) == strftime(datetime_add(v))

TimeField_enrich(v) ==
    IF v = INVALID_TIME THEN INVALID_TIME_TEXT ELSE strftime(datetime_add(v))

\* the number a text of decimal digits stands for, -1 when it is not one or
\* two decimal digits
DigitsValue(t) ==
    LET isdigit(c) == \E d \in 1..10 : DecimalDigits[d] = c
        digit(c) == CHOOSE d \in 0..9 : DecimalDigits[d + 1] = c
    IN  IF Len(t) = 1 /\ isdigit(t[1]) THEN digit(t[1])
        ELSE IF Len(t) = 2 /\ isdigit(t[1]) /\ isdigit(t[2]) THEN 10 * digit(t[1]) + digit(t[2])
        ELSE -1

\* text.split(sep): the parts of a text between its separators
RECURSIVE split(_, _, _)
split(t, sep, part) ==
    IF t = <<>> THEN <<part>>
    ELSE IF Head(t) = sep THEN <<part>> \o split(Tail(t), sep, <<>>)
    ELSE split(Tail(t), sep, Append(part, Head(t)))

\* datetime.strptime(value, "%H:%M:%S"): one or two digits for each of the
\* hour (0..23), the minute (0..59) and the second (0..59; the format takes
\* 60 and 61, the datetime it builds does not), on 1900-01-01
strptime(text) ==
    LET parts == split(text, ":", <<>>)
        h == DigitsValue(parts[1])
        m == DigitsValue(parts[2])
        s == DigitsValue(parts[3])
    IN  IF Len(parts) = 3 /\ h \in 0..23 /\ m \in 0..59 /\ s \in 0..59
        THEN Returns(<<[year |-> 1900, month |-> 1, day |-> 1,
                        second |-> 3600 * h + 60 * m + s]>>, <<>>, 0)
        ELSE Raises("ValueError", <<>>, 0)

\* datetime(year, month, day): the year is in 1..9999 (MINYEAR..MAXYEAR), the
\* month in 1..12 and the day from 1 on (the days here are 0 and 1)
datetime(year, month, day) ==
    IF year \in 1..9999 /\ month \in 1..12 /\ day >= 1
    THEN Returns(<<[year |-> year, month |-> month, day |-> day, second |-> 0]>>, <<>>, 0)
    ELSE Raises("ValueError", <<>>, 0)

\* the days from the first day of the year y0 to the first day of the year y
RECURSIVE days_before_year(_, _)
days_before_year(y0, y) ==
    IF y <= y0 THEN 0
    ELSE days_before_year(y0, y - 1)
         + (IF (y - 1) % 4 = 0 /\ ((y - 1) % 100 # 0 \/ (y - 1) % 400 = 0) THEN 366 ELSE 365)

\* TimeField.pack of a str: strptime, then the seconds between the timestamp
\* and datetime(0, 0, 0)
TimeField_pack(val) ==
    LET timestamp == strptime(val)
        zero == datetime(0, 0, 0)
    IN  IF timestamp.err # "none" THEN timestamp
        ELSE IF zero.err # "none" THEN zero
        ELSE Returns(<<SECONDS_PER_DAY * days_before_year(zero.ret[1].year, timestamp.ret[1].year)
                          + timestamp.ret[1].second>>, <<>>, 0)

----------------------------------------------------------------------------
(* Values of several Python types. An object is a record of its type: an   *)
(* int, a str (its characters) or a datetime (its days after EPOCH and its  *)
(* seconds into the day).                                                  *)

IntObj(n) == [type |-> "int", int |-> n, text |-> <<>>, second |-> 0]
StrObj(t) == [type |-> "str", int |-> 0, text |-> t, second |-> 0]

\* EPOCH + timedelta(days = days, seconds = seconds), normalised
PointInTime(days, seconds) ==
    [type |-> "datetime", int |-> days + (seconds \div SECONDS_PER_DAY), text |-> <<>>,
     second |-> seconds % SECONDS_PER_DAY]

\* a > b of two datetimes
datetime_gt(a, b) == a.int > b.int \/ (a.int = b.int /\ a.second > b.second)

\* an int validator applied to an object, out its outcome on val.int: the
\* comparisons of validate raise TypeError for a str or a datetime
validate_int(val, out) ==
    IF val.type # "int" THEN Raises("TypeError", <<>>, 0)
    ELSE IF out.err # "none" THEN out
    ELSE Returns(<<IntObj(out.ret[1])>>, <<>>, out.warns)

\* TimeField.validate: an int is checked, a str is parsed and returned
TimeField_validate_object(val) ==
    IF val.type = "int" THEN validate_int(val, TimeField_validate(val.int))
    ELSE IF val.type = "str"
    THEN LET parsed == strptime(val.text)
         IN  IF parsed.err # "none" THEN parsed ELSE Returns(<<val>>, <<>>, 0)
    ELSE Raises("TypeError", <<>>, 0)

----------------------------------------------------------------------------
(* DateTimeField *)

TIME_BIT_LENGTH == TimeField_BIT_LENGTH
DATE_BIT_LENGTH == 15
DateTimeField_BIT_LENGTH == DATE_BIT_LENGTH + TIME_BIT_LENGTH
MIN_TIME == TimeField_MINIMUM
MAX_TIME == TimeField_MAXIMUM
MIN_DATE == 0
MAX_DATE == 2^DATE_BIT_LENGTH - 1
TIME_MASK == 2^TIME_BIT_LENGTH - 1

\* the days of the month m of the year y
days_in_month(y, m) ==
    IF m = 2 THEN (IF y % 4 = 0 /\ (y % 100 # 0 \/ y % 400 = 0) THEN 29 ELSE 28)
    ELSE IF m \in {4, 6, 9, 11} THEN 30 ELSE 31

\* the number a text of four decimal digits stands for, -1 when it is not
\* four decimal digits
YearValue(t) ==
    IF Len(t) # 4 THEN -1
    ELSE LET hi == DigitsValue(SubSeq(t, 1, 2))
             lo == DigitsValue(SubSeq(t, 3, 4))
         IN  IF hi < 0 \/ lo < 0 THEN -1 ELSE 100 * hi + lo

\* datetime.strptime(val, "%Y-%m-%d %H:%M:%S") of a text with one space: the
\* outcome only, which is all validate looks at
DateTimeField_strptime(text) ==
    LET halves == split(text, " ", <<>>)
        date == split(halves[1], "-", <<>>)
        y == YearValue(date[1])
        m == DigitsValue(date[2])
        d == DigitsValue(date[3])
    IN  IF Len(halves) # 2 \/ Len(date) # 3 THEN Raises("ValueError", <<>>, 0)
        ELSE IF y \notin 1..9999 \/ m \notin 1..12 THEN Raises("ValueError", <<>>, 0)
        ELSE IF d \notin 1..days_in_month(y, m) THEN Raises("ValueError", <<>>, 0)
        ELSE strptime(halves[2])

\* val >> TIME_BIT_LENGTH and val & TIME_MASK of an int, which may be negative
DateTimeField_validate_int(val) ==
    LET date == IF val >= 0 THEN val \div 2^TIME_BIT_LENGTH
                ELSE -((-val + 2^TIME_BIT_LENGTH - 1) \div 2^TIME_BIT_LENGTH)
        time == val - date * 2^TIME_BIT_LENGTH
    IN  IF date < MIN_DATE \/ date > MAX_DATE THEN Raises("OverflowError", <<>>, 0)
        ELSE Returns(<<val>>, <<>>, IF time < MIN_TIME \/ time > MAX_TIME THEN 1 ELSE 0)

DateTimeField_validate(val) ==
    IF val.type = "int" THEN validate_int(val, DateTimeField_validate_int(val.int))
    ELSE IF val.type = "datetime"
    THEN IF datetime_gt(PointInTime(0, 0), val) THEN Raises("ValueError", <<>>, 0)
         ELSE IF datetime_gt(val, PointInTime(MAX_DATE, MAX_TIME))
         THEN Raises("OverflowError", <<>>, 0)
         ELSE Returns(<<val>>, <<>>, 0)
    ELSE IF val.type = "str"
    THEN LET parsed == DateTimeField_strptime(val.text)
         IN  IF parsed.err # "none" THEN parsed ELSE Returns(<<val>>, <<>>, 0)
    ELSE Raises("TypeError", <<>>, 0)

----------------------------------------------------------------------------
(* validate, bit_length and to_bytes by the class of the field *)

IntField_validate_default(val) == IntField_validate(val, None, None, None, None)
ReservedField_validate(val) == DynamicLengthIntField_validate(ReservedField_class, val)

\* self.validate(val) of Field.__setattr__
Field_validate(cls, val) ==
    CASE cls = "IntField" -> validate_int(val, IntField_validate_default(val.int))
      [] cls = "ReservedField" -> validate_int(val, ReservedField_validate(val.int))
      [] cls = "TimeField" -> TimeField_validate_object(val)
      [] cls = "DateTimeField" -> DateTimeField_validate(val)

\* self.bit_length
Field_bit_length(cls) ==
    CASE cls = "IntField" -> BIT_LENGTH
      [] cls = "ReservedField" -> size
      [] cls = "TimeField" -> TimeField_BIT_LENGTH
      [] cls = "DateTimeField" -> DateTimeField_BIT_LENGTH

\* IntField.to_bytes, inherited by the four classes: pack_int reads
\* value.bit_length(), which a str and a datetime do not have
Field_to_bytes(cls, val) ==
    IF val.type # "int" THEN Raises("AttributeError", <<>>, 0)
    ELSE pack_int(val.int, (Field_bit_length(cls) + 7) \div 8, SIGNED, "little")

----------------------------------------------------------------------------
(* ProtocolBlock, BlockField, BlockListField. A ProtocolBlock is a record   *)
(* of its class and its fields; fields is the dict in insertion order, a    *)
(* sequence of entries [key, kind, value, blocks]: kind is the class of the *)
(* field, value the raw value of an integer field, blocks the nested        *)
(* block of a BlockField or the list of blocks of a BlockListField.         *)

Block(type, fs) == [type |-> type, fields |-> fs]
Entry(key, kind, v, blocks) == [key |-> key, kind |-> kind, value |-> v, blocks |-> blocks]

\* classes of blocks: A1 is a subclass of A, B is unrelated to both
BlockClasses == {"A", "A1", "B"}
Subclass == {<<"A1", "A">>}

isinstance(b, type) == b.type = type \/ <<b.type, type>> \in Subclass

\* the field_type the BlockListField is constructed with
field_type == "A"

\* validate that looks at the first element only
BlockListField_validate_head(values) ==
    IF values # <<>> /\ ~isinstance(Head(values), field_type)
    THEN Raises("TypeError", <<>>, 0)
    ELSE Returns(<<values>>, <<>>, 0)

\* for v in values: if not isinstance(v, self.field_type): raise TypeError
BlockListField_validate(values) ==
    IF \E i \in 1..Len(values) : ~isinstance(values[i], field_type)
    THEN Raises("TypeError", <<>>, 0)
    ELSE Returns(<<values>>, <<>>, 0)

\* a call of BlockField.from_bytes(stream, num_bytes, consume) that has not
\* returned
Frame(s, num_bytes, consume) ==
    [op |-> "BlockField.from_bytes", stream |-> s, num_bytes |-> num_bytes,
     consume |-> consume]

\* return cls.from_bytes(stream): the call BlockField.from_bytes makes, with
\* the defaults num_bytes = 1 and consume = True
BlockField_from_bytes(s) == Frame(s, 1, TRUE)

\* BlockListField.from_bytes is a classmethod declared with the one
\* parameter stream, which receives the class: a call that passes a
\* bytearray has one positional argument too many
BlockListField_from_bytes(s) == Raises("TypeError", s, 0)

\* IntField.enrich: bound(self.value)
IntField_enrich(v) == Max(Min(v, BIT_LENGTH_MAXIMUM), BIT_LENGTH_MINIMUM)

\* a view is a dict in insertion order, a sequence of [key, shape, val]: val
\* is <<v>> for a scalar, the nested dict for a BlockField, and the list of
\* dicts for a BlockListField
RECURSIVE _get_object_dict(_)
_get_object_dict(fs) ==
    [i \in 1..Len(fs) |->
        LET f == fs[i]
        IN  IF f.kind = "BlockListField"
            THEN [key |-> f.key, shape |-> "list",
                  val |-> [j \in 1..Len(f.blocks) |-> _get_object_dict(f.blocks[j].fields)]]
            ELSE IF f.kind = "BlockField"
            THEN [key |-> f.key, shape |-> "dict",
                  val |-> _get_object_dict(f.blocks[1].fields)]
            ELSE [key |-> f.key, shape |-> "scalar", val |-> <<f.value>>]]

\* the enriched view without the test for ReservedField
RECURSIVE _enrich_object_dict_all(_)
_enrich_object_dict_all(fs) ==
    [i \in 1..Len(fs) |->
        LET f == fs[i]
        IN  IF f.kind = "BlockListField"
            THEN [key |-> f.key, shape |-> "list",
                  val |-> [j \in 1..Len(f.blocks) |-> _enrich_object_dict_all(f.blocks[j].fields)]]
            ELSE IF f.kind = "BlockField"
            THEN [key |-> f.key, shape |-> "dict",
                  val |-> _enrich_object_dict_all(f.blocks[1].fields)]
            ELSE [key |-> f.key, shape |-> "scalar", val |-> <<f.value>>]]

RECURSIVE _enrich_object_dict(_)
_enrich_object_dict(fs) ==
    IF fs = <<>> THEN <<>>
    ELSE LET f == Head(fs)
             rest == _enrich_object_dict(Tail(fs))
         IN  IF f.kind = "ReservedField" THEN rest
             ELSE IF f.kind = "BlockListField"
             THEN <<[key |-> f.key, shape |-> "list",
                     val |-> [j \in 1..Len(f.blocks) |-> _enrich_object_dict(f.blocks[j].fields)]]>>
                  \o rest
             ELSE IF f.kind = "BlockField"
             THEN <<[key |-> f.key, shape |-> "dict",
                     val |-> _enrich_object_dict(f.blocks[1].fields)]>> \o rest
             ELSE <<[key |-> f.key, shape |-> "scalar", val |-> <<IntField_enrich(f.value)>>]>>
                  \o rest

----------------------------------------------------------------------------
(* The caller: one decode is a sequence of reads on a shared bytearray. An *)
(* exception ends the decode; it reaches the caller, who may start another. *)

Record(c, out) ==
    /\ pre' = stream
    /\ call' = c
    /\ stream' = out.stream
    /\ ret' = out.ret
    /\ err' = out.err
    /\ warns' = out.warns
    /\ UNCHANGED <<start, value, fields, frames>>

Init ==
    /\ stream \in Buffers
    /\ pre = stream
    /\ start = stream
    /\ call = NoCall
    /\ ret = <<>>
    /\ err = "none"
    /\ warns = 0
    /\ value = 0
    /\ fields = <<>>
    /\ frames = <<>>

\* ProtocolBlock.from_bytes(mybytes): a decode begins on the caller's bytes
FromBytes ==
    /\ start' = stream
    /\ pre' = stream
    /\ call' = [NoCall EXCEPT !.op = "from_bytes"]
    /\ ret' = <<>>
    /\ err' = "none"
    /\ warns' = 0
    /\ UNCHANGED <<stream, value, fields, frames>>

PeekBytes(n) ==
    /\ err = "none"
    /\ Record([NoCall EXCEPT !.op = "peek_bytes", !.n = n], peek_bytes(stream, n))

PopBytes(n) ==
    /\ err = "none"
    /\ Record([NoCall EXCEPT !.op = "pop_bytes", !.n = n, !.consume = TRUE],
              pop_bytes(stream, n))

GetInt(n, signed, consume, endianness) ==
    /\ err = "none"
    /\ Record([NoCall EXCEPT !.op = "get_int", !.n = n, !.signed = signed,
                             !.consume = consume, !.endianness = endianness],
              get_int(stream, n, signed, consume, endianness))

SplitBits(widths, consume, endianness) ==
    /\ err = "none"
    /\ Record([NoCall EXCEPT !.op = "split_bits", !.widths = widths,
                             !.consume = consume, !.endianness = endianness],
              split_bits(stream, widths, consume, endianness))

\* the length argument of get_string: None, or <<k>> for the integer k
StringLengths == {None} \cup {<<k>> : k \in (-1)..(MaxLen + 1)}

GetString(length, null_terminated, consume) ==
    /\ err = "none"
    /\ Record([NoCall EXCEPT !.op = "get_string", !.args = <<length, null_terminated>>,
                             !.consume = consume],
              get_string(stream, length, null_terminated, consume))

GetMask(n, offset) ==
    /\ Record([NoCall EXCEPT !.op = "get_mask", !.n = n, !.offset = offset],
              Returns(<<get_mask(n, offset)>>, stream, 0))

Next ==
    \/ FromBytes
    \/ \E n \in 0..(MaxLen + 1) : PeekBytes(n)
    \/ \E n \in 0..(MaxLen + 1) : PopBytes(n)
    \/ \E n \in 0..(MaxLen + 1), signed \in BOOLEAN, consume \in BOOLEAN, e \in Endians :
           GetInt(n, signed, consume, e)
    \/ \E w \in SliceLists, consume \in BOOLEAN, e \in Endians : SplitBits(w, consume, e)
    \/ \E length \in StringLengths, null_terminated \in BOOLEAN, consume \in BOOLEAN :
           GetString(length, null_terminated, consume)

Spec == Init /\ [][Next]_vars

\* get_mask on its own: a pure function of its two arguments
InitMask ==
    /\ stream = <<>>
    /\ pre = <<>>
    /\ start = <<>>
    /\ call = NoCall
    /\ ret = <<>>
    /\ err = "none"
    /\ warns = 0
    /\ value = 0
    /\ fields = <<>>
    /\ frames = <<>>

NextMask == \E n \in 0..MaxMaskBits, offset \in 0..MaxMaskBits : GetMask(n, offset)

SpecMask == InitMask /\ [][NextMask]_vars

----------------------------------------------------------------------------
(* Properties of the buffer reads *)

KnownEndian == call.endianness \in {"little", "big"}

\* C1: pop(n) and peek(n) with n greater than the length of the buffer each
\* fail with an error, and the buffer afterwards holds the bytes it held
\* before the call, in the same order.
C1_UnderrunLeavesBuffer ==
    (call.op \in {"pop_bytes", "peek_bytes"} /\ call.n > Len(pre))
        => (err # "none" /\ stream = pre)

\* C2: split_bits with widths that need more bytes than the buffer holds
\* raises Overflow and leaves the buffer as it was, consuming or not.
C2_SplitOverflowUntouched ==
    (call.op = "split_bits" /\ (SumSeq(call.widths) + 7) \div 8 > Len(pre))
        => (err = "OverflowError" /\ stream = pre)

C2_Witness ==
    /\ call.op = "split_bits"
    /\ call.consume
    /\ Len(pre) > 0
    /\ (SumSeq(call.widths) + 7) \div 8 > Len(pre)
    /\ err = "OverflowError"
    /\ stream = pre

\* C3: when a decode has applied consuming reads to the shared buffer (bytes
\* of it are already removed) and a later read fails, the buffer equals its
\* content before the first read of that decode.
C3_FailedDecodeRestoresBuffer ==
    (err # "none" /\ Len(pre) < Len(start)) => stream = start

\* C5: split_bits on the bytes 0xCB, 0xDF with widths [8,8] returns
\* [203, 223], little-endian and big-endian.
C5_SplitWholeBytes ==
    (call.op = "split_bits" /\ pre = <<203, 223>> /\ call.widths = <<8, 8>>
        /\ KnownEndian)
        => (err = "none" /\ ret = <<203, 223>>)

C5_Witness ==
    /\ call.op = "split_bits"
    /\ pre = <<203, 223>>
    /\ call.widths = <<8, 8>>
    /\ call.endianness = "big"
    /\ call.consume
    /\ ret = <<203, 223>>

\* C6: split_bits on the bytes 0xCB, 0xDF with widths [1,15] returns
\* [1, 32233] little-endian and [1, 53755] big-endian.
C6_SplitOneFifteen ==
    (call.op = "split_bits" /\ pre = <<203, 223>> /\ call.widths = <<1, 15>>)
        => /\ call.endianness = "little" => (err = "none" /\ ret = <<1, 32233>>)
           /\ call.endianness = "big" => (err = "none" /\ ret = <<1, 53755>>)

C8_GetMask ==
    call.op = "get_mask"
        => /\ ret = <<(2^call.n - 1) * 2^call.offset>>
           /\ (call.n = 3 /\ call.offset = 0) => ret = <<7>>
           /\ (call.n = 5 /\ call.offset = 2) => ret = <<124>>

C8_Witness ==
    call.op = "get_mask" /\ call.n = 5 /\ call.offset = 2 /\ ret = <<124>>

----------------------------------------------------------------------------
(* An IntField whose value is assigned *)

IntInputs == (BIT_LENGTH_MINIMUM - Slack)..(BIT_LENGTH_MAXIMUM + Slack)

\* the outcome of a call on the field; the caller's bytearray is not touched
FieldCall(c, out) ==
    /\ call' = c
    /\ ret' = out.ret
    /\ err' = out.err
    /\ warns' = out.warns
    /\ UNCHANGED <<stream, pre, start, fields, frames>>

InitField ==
    /\ stream = <<>>
    /\ pre = <<>>
    /\ start = <<>>
    /\ call = NoCall
    /\ ret = <<>>
    /\ err = "none"
    /\ warns = 0
    /\ value = DEFAULT
    /\ fields = <<>>
    /\ frames = <<>>

\* Field.__setattr__("value", val): validate(val) runs before the store
IntSetValue(val) ==
    LET out == IntField_validate(val, None, None, None, None)
    IN  /\ FieldCall([NoCall EXCEPT !.op = "IntField.value=", !.n = val], out)
        /\ value' = IF out.err = "none" THEN out.ret[1] ELSE value

NextInt == \E val \in IntInputs : IntSetValue(val)

SpecInt == InitField /\ [][NextInt]_vars

----------------------------------------------------------------------------
(* An IntField serialized and read back *)

InitIntBytes ==
    /\ stream = <<>>
    /\ pre = <<>>
    /\ start = <<>>
    /\ call = NoCall
    /\ ret = <<>>
    /\ err = "none"
    /\ warns = 0
    /\ value \in {v \in IntInputs : IntField_validate(v, None, None, None, None).err = "none"}
    /\ fields = <<>>
    /\ frames = <<>>

\* the caller takes the bytearray to_bytes() returns as its buffer
IntToBytes ==
    LET out == IntField_to_bytes(value)
    IN  /\ call' = [NoCall EXCEPT !.op = "IntField.to_bytes"]
        /\ pre' = stream
        /\ stream' = IF out.err = "none" THEN out.ret ELSE stream
        /\ ret' = out.ret
        /\ err' = out.err
        /\ warns' = out.warns
        /\ UNCHANGED <<start, value, fields, frames>>

IntFromBytes(num_bytes) ==
    Record([NoCall EXCEPT !.op = "IntField.from_bytes", !.n = num_bytes, !.consume = TRUE],
           IntField_from_bytes(stream, num_bytes, FALSE, TRUE, "little"))

NextIntBytes ==
    \/ IntToBytes
    \/ \E num_bytes \in 0..BIT_LENGTH : IntFromBytes(num_bytes)

SpecIntBytes == InitIntBytes /\ [][NextIntBytes]_vars

----------------------------------------------------------------------------
(* A PackedIntField built from one human value: pack, store, enrich *)

HumanInputs == (UNPACKED_MINIMUM - Slack)..(UNPACKED_MAXIMUM + Slack)

PackedPack(val) ==
    /\ call.op = "none"
    /\ FieldCall([NoCall EXCEPT !.op = "PackedIntField.pack", !.n = val],
                 PackedIntField_pack(val))
    /\ UNCHANGED value

\* self.value = <the packed value>, through Field.__setattr__
PackedStore ==
    /\ call.op = "PackedIntField.pack"
    /\ err = "none"
    /\ LET out == PackedIntField_validate(ret[1], None, None, None)
       IN  /\ FieldCall([NoCall EXCEPT !.op = "PackedIntField.value=", !.n = ret[1]], out)
           /\ value' = IF out.err = "none" THEN out.ret[1] ELSE value

\* self.value = val for a raw value
PackedSetValue(val) ==
    /\ call.op = "none"
    /\ LET out == PackedIntField_validate(val, None, None, None)
       IN  /\ FieldCall([NoCall EXCEPT !.op = "PackedIntField.value=", !.n = val], out)
           /\ value' = IF out.err = "none" THEN out.ret[1] ELSE value

PackedEnrich ==
    /\ call.op = "PackedIntField.value="
    /\ FieldCall([NoCall EXCEPT !.op = "PackedIntField.enrich"],
                 Returns(<<PackedIntField_enrich(value)>>, <<>>, 0))
    /\ UNCHANGED value

NextPacked ==
    \/ \E val \in HumanInputs : PackedPack(val)
    \/ PackedStore
    \/ \E val \in IntInputs : PackedSetValue(val)
    \/ PackedEnrich

SpecPacked == InitField /\ [][NextPacked]_vars

----------------------------------------------------------------------------
(* Properties of the fields *)

\* C4: for an unsigned 8-bit Int field storing v, from_bytes applied to the
\* bytes to_bytes produced, asked for the field's size of 1 byte, returns v.
C4_IntRoundTrip ==
    (call.op = "IntField.from_bytes" /\ call.n = FieldBytes
        /\ IntField_to_bytes(value).err = "none"
        /\ pre = IntField_to_bytes(value).ret)
        => (err = "none" /\ ret = <<value>>)

\* C9: for an unsigned 8-bit Int field an assignment of v in 0..255 passes
\* validation, which returns v, and v is stored; an assignment of v > 255 or
\* v < 0 raises Overflow and leaves the stored value as it was.
C9_IntValidate ==
    [][ call'.op = "IntField.value=" =>
          /\ call'.n \in 0..255 =>
                (err' = "none" /\ ret' = <<call'.n>> /\ value' = call'.n)
          /\ (call'.n > 255 \/ call'.n < 0) =>
                (err' = "OverflowError" /\ value' = value) ]_vars

C9_Witness ==
    call.op = "IntField.value=" /\ call.n = 256 /\ err = "OverflowError" /\ value = 255

\* C10: PackedInt with unpacked_min = 0, resolution = 0.5, 8 bits: pack(h)
\* fails when h is not a multiple of 0.5 (1.25 fails), pack(0.5 * k) = k for
\* k in 0..255 (1.5 packs to 3), and enrich of a field storing k is 0.5 * k.
\* Human values are in quarters: 0.5 * k is 2 * k.
C10_PackedHalfSteps ==
    /\ call.op = "PackedIntField.pack" =>
          /\ call.n % 2 # 0 => err # "none"
          /\ (call.n % 2 = 0 /\ (call.n \div 2) \in 0..255) =>
                (err = "none" /\ ret = <<call.n \div 2>>)
          /\ call.n = 5 => err = "ValueError"
          /\ call.n = 6 => ret = <<3>>
    /\ (call.op = "PackedIntField.enrich" /\ value \in 0..255) => ret = <<2 * value>>

C10_Witness ==
    call.op = "PackedIntField.enrich" /\ value = 3 /\ ret = <<6>>

----------------------------------------------------------------------------
(* A TimeField constructed with a raw value, then enriched *)

TimeInputs ==
    (TimeField_BIT_LENGTH_MINIMUM - Slack)..(TimeField_BIT_LENGTH_MAXIMUM + Slack)

InitTime ==
    /\ stream = <<>>
    /\ pre = <<>>
    /\ start = <<>>
    /\ call = NoCall
    /\ ret = <<>>
    /\ err = "none"
    /\ warns = 0
    /\ value \in {v \in TimeInputs : TimeField_validate(v).err = "none"}
    /\ fields = <<>>
    /\ frames = <<>>

TimeEnrich ==
    /\ FieldCall([NoCall EXCEPT !.op = "TimeField.enrich"],
                 Returns(<<TimeField_enrich(value)>>, <<>>, 0))
    /\ UNCHANGED value

\* TimeField.pack applied to the text enrich returned
TimePack ==
    /\ call.op = "TimeField.enrich"
    /\ FieldCall([NoCall EXCEPT !.op = "TimeField.pack", !.args = ret[1]], TimeField_pack(ret[1]))
    /\ UNCHANGED value

NextTime == TimeEnrich \/ TimePack

SpecTime == InitTime /\ [][NextTime]_vars

\* the number a two-character decimal text stands for
DecimalValue(t) ==
    LET digit(c) == CHOOSE d \in 0..9 : DecimalDigits[d + 1] = c
    IN  10 * digit(t[1]) + digit(t[2])

\* C11: enrich of a Time field storing 0x1FFFF is the invalid-time sentinel
\* text; storing r in 0..86399 it is the text HH:MM:SS with HH = r div 3600,
\* MM = (r mod 3600) div 60 and SS = r mod 60, each two decimal digits;
\* 3661 gives 01:01:01.
C11_TimeEnrich ==
    call.op = "TimeField.enrich" =>
        /\ value = 131071 => ret = <<INVALID_TIME_TEXT>>
        /\ value \in 0..86399 =>
              LET t == ret[1]
              IN  /\ Len(t) = 8
                  /\ t[3] = ":"
                  /\ t[6] = ":"
                  /\ \A i \in {1, 2, 4, 5, 7, 8} : \E d \in 1..10 : DecimalDigits[d] = t[i]
                  /\ DecimalValue(SubSeq(t, 1, 2)) = value \div 3600
                  /\ DecimalValue(SubSeq(t, 4, 5)) = (value % 3600) \div 60
                  /\ DecimalValue(SubSeq(t, 7, 8)) = value % 60
        /\ value = 3661 => ret = << <<"0", "1", ":", "0", "1", ":", "0", "1">> >>

C11_Witness ==
    /\ call.op = "TimeField.enrich"
    /\ value = 86399
    /\ ret = << <<"2", "3", ":", "5", "9", ":", "5", "9">> >>

----------------------------------------------------------------------------
(* A MaskField constructed with a value: enrich and the operators *)

MaskOperands == 0..(2^(MaskField_BIT_LENGTH + 1) - 1)
ShiftOperands == (-1)..(MaskField_BIT_LENGTH + 1)

InitFlags ==
    /\ stream = <<>>
    /\ pre = <<>>
    /\ start = <<>>
    /\ call = NoCall
    /\ ret = <<>>
    /\ err = "none"
    /\ warns = 0
    /\ value \in {v \in MaskOperands :
                    validate_of(MaskField_class, v, None, None, None, None).err = "none"}
    /\ fields = <<>>
    /\ frames = <<>>

MaskEnrich ==
    /\ FieldCall([NoCall EXCEPT !.op = "MaskField.enrich"],
                 Returns(<<MaskField_enrich(value)>>, <<>>, 0))
    /\ UNCHANGED value

MaskAnd(x) ==
    /\ FieldCall([NoCall EXCEPT !.op = "MaskField.__and__", !.n = x], MaskField_and(value, x))
    /\ UNCHANGED value

MaskOr(x) ==
    /\ FieldCall([NoCall EXCEPT !.op = "MaskField.__or__", !.n = x], MaskField_or(value, x))
    /\ UNCHANGED value

MaskXor(x) ==
    /\ FieldCall([NoCall EXCEPT !.op = "MaskField.__xor__", !.n = x], MaskField_xor(value, x))
    /\ UNCHANGED value

MaskInvert ==
    /\ FieldCall([NoCall EXCEPT !.op = "MaskField.__invert__"], MaskField_invert(value))
    /\ UNCHANGED value

MaskLshift(x) ==
    /\ FieldCall([NoCall EXCEPT !.op = "MaskField.__lshift__", !.n = x],
                 MaskField_lshift(value, x))
    /\ UNCHANGED value

MaskRshift(x) ==
    /\ FieldCall([NoCall EXCEPT !.op = "MaskField.__rshift__", !.n = x],
                 MaskField_rshift(value, x))
    /\ UNCHANGED value

NextFlags ==
    \/ MaskEnrich
    \/ \E x \in MaskOperands : MaskAnd(x)
    \/ \E x \in MaskOperands : MaskOr(x)
    \/ \E x \in MaskOperands : MaskXor(x)
    \/ MaskInvert
    \/ \E x \in ShiftOperands : MaskLshift(x)
    \/ \E x \in ShiftOperands : MaskRshift(x)

SpecFlags == InitFlags /\ [][NextFlags]_vars

\* C12: enrich of a Mask field storing v returns a mapping with exactly one
\* entry per named flag, true exactly when that flag's bit is set in v; with
\* three flags and v = 5 (flags 0 and 2 set) the entries are true, false,
\* true.
C12_MaskEnrich ==
    call.op = "MaskField.enrich" =>
        LET m == ret[1]
        IN  /\ DOMAIN m = {FlagNames[i] : i \in 1..NumFlags}
            /\ \A i \in 1..NumFlags : m[FlagNames[i]] = ((value \div 2^(i - 1)) % 2 = 1)
            /\ value = 5 => (m["A"] /\ ~m["B"] /\ m["C"])

C12_Witness ==
    /\ call.op = "MaskField.enrich"
    /\ value = 5
    /\ ret[1]["A"]
    /\ ~ret[1]["B"]
    /\ ret[1]["C"]

\* C13: for a Mask field of width w storing v and an integer operand x, AND,
\* OR, XOR, NOT, left shift and right shift each return the plain bitwise
\* result reduced modulo 2^w, and none of them raises an error.
C13_MaskOperators ==
    LET w == NumFlags
        x == call.n
        both == BitAnd(value, x)
    IN  /\ call.op = "MaskField.__and__" => (err = "none" /\ ret = <<both % 2^w>>)
        /\ call.op = "MaskField.__or__" => (err = "none" /\ ret = <<(value + x - both) % 2^w>>)
        /\ call.op = "MaskField.__xor__" =>
              (err = "none" /\ ret = <<(value + x - 2 * both) % 2^w>>)
        /\ call.op = "MaskField.__invert__" => (err = "none" /\ ret = <<2^w - 1 - value>>)
        /\ call.op = "MaskField.__lshift__" =>
              (err = "none" /\ (x >= 0 => ret = <<(value * 2^x) % 2^w>>))
        /\ call.op = "MaskField.__rshift__" =>
              (err = "none" /\ (x >= 0 => ret = <<(value \div 2^x) % 2^w>>))

----------------------------------------------------------------------------
(* A BlockListField of blocks of class A whose list is assigned *)

BlockLists == SeqsUpTo({Block(c, <<>>) : c \in BlockClasses}, MaxList)

InitBlockList ==
    /\ stream = <<>>
    /\ pre = <<>>
    /\ start = <<>>
    /\ call = NoCall
    /\ ret = <<>>
    /\ err = "none"
    /\ warns = 0
    /\ value \in {l \in BlockLists : BlockListField_validate(l).err = "none"}
    /\ fields = <<>>
    /\ frames = <<>>

\* Field.__setattr__("value", values): validate(values) runs before the store
BlockListSetValue(values) ==
    LET out == BlockListField_validate(values)
    IN  /\ FieldCall([NoCall EXCEPT !.op = "BlockListField.value=", !.args = values], out)
        /\ value' = IF out.err = "none" THEN out.ret[1] ELSE value

NextBlockList == \E values \in BlockLists : BlockListSetValue(values)

SpecBlockList == InitBlockList /\ [][NextBlockList]_vars

\* C14: assigning to a BlockList field a list of which at least one element
\* is not of the declared block type raises a type error, whatever the place
\* of that element, and the stored list afterwards is the one stored before.
C14_BlockListRejects ==
    [][ (/\ call'.op = "BlockListField.value="
         /\ \E i \in 1..Len(call'.args) : ~isinstance(call'.args[i], field_type))
            => (err' = "TypeError" /\ value' = value) ]_vars

C14_Witness ==
    /\ call.op = "BlockListField.value="
    /\ Len(call.args) = 3
    /\ isinstance(call.args[1], field_type)
    /\ isinstance(call.args[2], field_type)
    /\ ~isinstance(call.args[3], field_type)
    /\ err = "TypeError"
    /\ Len(value) = 2

----------------------------------------------------------------------------
(* A ProtocolBlock whose fields are populated, viewed raw and enriched *)

KeyNames == <<"a", "b", "c">>

\* blocks of up to two integer fields, IntField or ReservedField
FlatFields ==
    { [i \in 1..Len(ks) |->
          Entry(KeyNames[i], ks[i], IF ks[i] = "IntField" THEN 7 ELSE 0, <<>>)] :
      ks \in SeqsUpTo({"IntField", "ReservedField"}, 2) }

\* blocks nested up to d deep, through a BlockField and through a
\* BlockListField, with a ReservedField before, after and inside them
RECURSIVE FieldTrees(_)
FieldTrees(d) ==
    IF d = 0 THEN FlatFields
    ELSE LET sub == FieldTrees(d - 1)
             pair == <<Entry("a", "ReservedField", 0, <<>>), Entry("b", "IntField", 7, <<>>)>>
         IN  sub
             \cup { <<Entry("a", "ReservedField", 0, <<>>),
                      Entry("b", "BlockField", 0, <<Block("A", t)>>),
                      Entry("c", "IntField", 7, <<>>)>> : t \in sub }
             \cup { <<Entry("a", "BlockListField", 0, <<Block("A", t), Block("A", pair)>>),
                      Entry("b", "ReservedField", 0, <<>>)>> : t \in sub }
             \cup { <<Entry("a", "BlockField", 0, <<Block("A", t)>>),
                      Entry("b", "BlockListField", 0, <<Block("A", t)>>)>> : t \in sub }

InitBlock ==
    /\ stream = <<>>
    /\ pre = <<>>
    /\ start = <<>>
    /\ call = NoCall
    /\ ret = <<>>
    /\ err = "none"
    /\ warns = 0
    /\ value = 0
    /\ fields \in FieldTrees(MaxDepth)
    /\ frames = <<>>

GetObjectDict ==
    /\ FieldCall([NoCall EXCEPT !.op = "_get_object_dict"],
                 Returns(<<_get_object_dict(fields)>>, <<>>, 0))
    /\ UNCHANGED value

EnrichObjectDict ==
    /\ FieldCall([NoCall EXCEPT !.op = "_enrich_object_dict"],
                 Returns(<<_enrich_object_dict(fields)>>, <<>>, 0))
    /\ UNCHANGED value

NextBlock == GetObjectDict \/ EnrichObjectDict

SpecBlock == InitBlock /\ [][NextBlock]_vars

\* the keys of view are those of the fields fs, in order, at every level
RECURSIVE RawKeys(_, _)
RawKeys(fs, view) ==
    /\ Len(view) = Len(fs)
    /\ \A i \in 1..Len(fs) :
          /\ view[i].key = fs[i].key
          /\ fs[i].kind = "BlockField" => RawKeys(fs[i].blocks[1].fields, view[i].val)
          /\ fs[i].kind = "BlockListField" =>
                /\ Len(view[i].val) = Len(fs[i].blocks)
                /\ \A j \in 1..Len(fs[i].blocks) :
                      RawKeys(fs[i].blocks[j].fields, view[i].val[j])

\* the keys of view are those of the fields of fs that are not Reserved, in
\* order, at every level
RECURSIVE EnrichedKeys(_, _)
EnrichedKeys(fs, view) ==
    LET kept == SelectSeq(fs, LAMBDA f : f.kind # "ReservedField")
    IN  /\ Len(view) = Len(kept)
        /\ \A i \in 1..Len(kept) :
              /\ view[i].key = kept[i].key
              /\ kept[i].kind = "BlockField" =>
                    EnrichedKeys(kept[i].blocks[1].fields, view[i].val)
              /\ kept[i].kind = "BlockListField" =>
                    /\ Len(view[i].val) = Len(kept[i].blocks)
                    /\ \A j \in 1..Len(kept[i].blocks) :
                          EnrichedKeys(kept[i].blocks[j].fields, view[i].val[j])

\* C15: the raw view of a Protocol Block has a key for every field, Reserved
\* fields included; the enriched view has, at every nesting level and inside
\* every BlockList element, exactly the keys of the fields that are not
\* Reserved, in the order of the fields.
C15_ViewKeys ==
    /\ call.op = "_get_object_dict" => RawKeys(fields, ret[1])
    /\ call.op = "_enrich_object_dict" => EnrichedKeys(fields, ret[1])

C15_Witness ==
    /\ call.op = "_enrich_object_dict"
    /\ Len(fields) = 2
    /\ fields[1].kind = "BlockListField"
    /\ fields[2].kind = "ReservedField"
    /\ \E k \in 1..Len(fields[1].blocks[1].fields) :
          fields[1].blocks[1].fields[k].kind = "BlockListField"
    /\ Len(ret[1]) = 1
    /\ Len(ret[1][1].val[2]) = 1
    /\ ret[1][1].val[2][1].key = "b"

----------------------------------------------------------------------------
(* A ReservedField of the given size whose value is assigned *)

ReservedInputs == (-Slack)..(2^size + Slack)

InitReserved ==
    /\ stream = <<>>
    /\ pre = <<>>
    /\ start = <<>>
    /\ call = NoCall
    /\ ret = <<>>
    /\ err = "none"
    /\ warns = 0
    /\ value \in {v \in ReservedInputs :
                    DynamicLengthIntField_validate(ReservedField_class, v).err = "none"}
    /\ fields = <<>>
    /\ frames = <<>>

ReservedSetValue(val) ==
    LET out == DynamicLengthIntField_validate(ReservedField_class, val)
    IN  /\ FieldCall([NoCall EXCEPT !.op = "ReservedField.value=", !.n = val], out)
        /\ value' = IF out.err = "none" THEN out.ret[1] ELSE value

NextReserved == \E val \in ReservedInputs : ReservedSetValue(val)

SpecReserved == InitReserved /\ [][NextReserved]_vars

\* C16: an unsigned Reserved field of width n stores only values in
\* 0..2^n - 1: an assignment of a value outside that range, 2^n included,
\* raises Overflow and leaves the stored value as it was.
C16_ReservedRange ==
    [][ call'.op = "ReservedField.value=" =>
          /\ call'.n \notin 0..(2^size - 1) => (err' = "OverflowError" /\ value' = value)
          /\ err' = "none" => value' \in 0..(2^size - 1) ]_vars

----------------------------------------------------------------------------
(* PackedIntField.validate called with a soft maximum and a resolution *)

SoftMaxima == {None, <<4>>}
Resolutions == {None, <<2>>}

PackedValidate(val, max_arg, res_arg) ==
    /\ FieldCall([NoCall EXCEPT !.op = "PackedIntField.validate", !.n = val,
                                !.args = <<None, max_arg, res_arg>>],
                 PackedIntField_validate(val, None, max_arg, res_arg))
    /\ UNCHANGED value

NextPackedValidate ==
    \E val \in IntInputs, max_arg \in SoftMaxima, res_arg \in Resolutions :
        PackedValidate(val, max_arg, res_arg)

SpecPackedValidate == InitField /\ [][NextPackedValidate]_vars

\* C19: PackedInt validate tests the hard maximum, the hard minimum, the soft
\* minimum, the soft maximum and then the resolution: a raw value within the
\* hard bounds that is not a multiple of the resolution is rejected with an
\* error in every case, also when it is above the soft maximum and a warning
\* was emitted.
C19_PackedResolution ==
    (/\ call.op = "PackedIntField.validate"
     /\ call.n >= BIT_LENGTH_MINIMUM
     /\ call.n <= BIT_LENGTH_MAXIMUM
     /\ call.n % OrElse(call.args[3], RESOLUTION) # 0)
        => err = "ValueError"

----------------------------------------------------------------------------
(* EnumField.validate *)

EnumValidate(val) ==
    /\ FieldCall([NoCall EXCEPT !.op = "EnumField.validate", !.n = val],
                 EnumField_validate(val))
    /\ UNCHANGED value

NextEnum == \E val \in IntInputs : EnumValidate(val)

SpecEnum == InitField /\ [][NextEnum]_vars

\* C20 as stated: Enum validate accepts every integer that fits the bit
\* width, returns it unchanged and emits no warning, also when it is not a
\* named value (below the smallest or above the largest named value
\* included); a value outside the bit width raises Overflow.
C20_EnumNoWarning ==
    call.op = "EnumField.validate" =>
        /\ call.n \in 0..255 => (err = "none" /\ ret = <<call.n>> /\ warns = 0)
        /\ call.n \notin 0..255 => err = "OverflowError"

\* C20 amended: Enum validate accepts every integer that fits the bit width
\* and returns it unchanged; it emits no warning when the value is named or
\* lies between the smallest and the largest named value, and one warning
\* when it lies below the smallest or above the largest named value; a value
\* outside the bit width raises Overflow. The named values are 2, 3 and 5.
C20_EnumWarnsOutsideNamed ==
    call.op = "EnumField.validate" =>
        /\ call.n \in 0..255 =>
              /\ err = "none"
              /\ ret = <<call.n>>
              /\ warns = IF call.n < 2 \/ call.n > 5 THEN 1 ELSE 0
        /\ call.n \notin 0..255 => (err = "OverflowError" /\ warns = 0)

C20_Witness ==
    /\ call.op = "EnumField.validate"
    /\ call.n = 6
    /\ err = "none"
    /\ ret = <<6>>
    /\ warns = 1

----------------------------------------------------------------------------
(* Reads that do not consume *)

----------------------------------------------------------------------------
(* from_bytes of a BlockField and of a BlockListField. A step is one call:  *)
(* the caller's, or the one the running from_bytes makes.                   *)

\* the caller calls BlockField.from_bytes(stream, num_bytes, consume)
BlockFromBytes(num_bytes, consume) ==
    /\ frames = <<>>
    /\ frames' = <<Frame(stream, num_bytes, consume)>>
    /\ pre' = stream
    /\ call' = [NoCall EXCEPT !.op = "BlockField.from_bytes", !.n = num_bytes,
                              !.consume = consume]
    /\ ret' = <<>>
    /\ err' = "none"
    /\ warns' = 0
    /\ UNCHANGED <<stream, start, value, fields>>

\* the innermost from_bytes runs its body: one more call
BlockFromBytesBody ==
    /\ frames # <<>>
    /\ Len(frames) < RecursionLimit
    /\ frames' = Append(frames, BlockField_from_bytes(frames[Len(frames)].stream))
    /\ UNCHANGED <<stream, pre, start, call, ret, err, warns, value, fields>>

\* the interpreter refuses the next frame: RecursionError unwinds every frame
\* and reaches the caller
BlockFromBytesOverflow ==
    /\ Len(frames) = RecursionLimit
    /\ frames' = <<>>
    /\ err' = "RecursionError"
    /\ UNCHANGED <<stream, pre, start, call, ret, warns, value, fields>>

\* the caller calls BlockListField.from_bytes(stream)
BlockListFromBytes ==
    /\ frames = <<>>
    /\ Record([NoCall EXCEPT !.op = "BlockListField.from_bytes"],
              BlockListField_from_bytes(stream))

NextBlockBytes ==
    \/ \E num_bytes \in 1..MaxLen, consume \in BOOLEAN : BlockFromBytes(num_bytes, consume)
    \/ BlockFromBytesBody
    \/ BlockFromBytesOverflow
    \/ BlockListFromBytes

SpecBlockBytes == Init /\ [][NextBlockBytes]_vars

\* C18: from_bytes of a Block or BlockList field on a finite buffer hands the
\* buffer to the nested block's deserialization and returns that result or
\* error after a finite number of steps: it never calls itself again with the
\* arguments of a call that is still running, and the call ends with no
\* error of its own.
C18_FromBytesTerminates ==
    /\ \A i, j \in 1..Len(frames) : i < j => frames[i] # frames[j]
    /\ call.op \in {"BlockField.from_bytes", "BlockListField.from_bytes"}
          => err \notin {"RecursionError", "TypeError"}

----------------------------------------------------------------------------
(* get_string with a length *)

\* the number of characters of the longest prefix of bs that has at most
\* max_length characters and, when null_terminated, ends at the first zero
PrefixLength(bs, max_length, null_terminated) ==
    LET n == Min(max_length, Len(bs))
        zeros == {i \in 1..n : bs[i] = 0}
    IN  IF null_terminated /\ zeros # {}
        THEN CHOOSE z \in zeros : \A i \in zeros : z <= i
        ELSE n

\* C21: for every buffer and every max_length >= 0, 0 included, get_string
\* returns the longest prefix of the buffer, one character per byte, of at
\* most max_length characters that, when null_terminated, ends at and
\* includes the first zero byte; a consuming call removes from the front of
\* the buffer as many bytes as it returns characters.
C21_ReadStringPrefix ==
    (call.op = "get_string" /\ call.args[1] # None /\ call.args[1][1] >= 0)
        => LET k == PrefixLength(pre, call.args[1][1], call.args[2])
           IN  /\ err = "none"
               /\ ret = << [i \in 1..k |-> chr(pre[i])] >>
               /\ stream = IF call.consume THEN SubSeq(pre, k + 1, Len(pre)) ELSE pre

----------------------------------------------------------------------------
(* merge_bits, and split_bits applied to the bytes it returns *)

MergeWidths ==
    { <<8>>, <<3>>, <<9>>, <<4, 4>>, <<8, 8>>, <<1, 15>>, <<4, 12>>, <<12, 4>>,
      <<3, 5>>, <<7, 9>>, <<4, 7, 5>>, <<4, 4, 6>>, <<4, 8, 4>>, <<5, 3, 7, 1>> }

\* values given for a width: below 0, the extremes of the width, the first
\* value too large for it, and the low bits of 0xA5A5
ValuesFor(width) == {-1, 0, 2^width - 1, 2^width, 42405 % 2^width}

PairLists ==
    UNION { { [i \in 1..Len(ws) |-> <<vs[i], ws[i]>>] :
              vs \in {f \in [1..Len(ws) -> UNION {ValuesFor(ws[k]) : k \in 1..Len(ws)}] :
                        \A i \in 1..Len(ws) : f[i] \in ValuesFor(ws[i])} } :
            ws \in MergeWidths }

\* the caller takes the bytearray merge_bits returns as its buffer; value
\* holds the pairs that were merged
MergeBits(values, endianness) ==
    LET out == merge_bits(values, endianness)
    IN  /\ call.op = "none"
        /\ call' = [NoCall EXCEPT !.op = "merge_bits", !.args = values,
                                  !.endianness = endianness]
        /\ pre' = stream
        /\ stream' = IF out.err = "none" THEN out.ret ELSE stream
        /\ ret' = out.ret
        /\ err' = out.err
        /\ warns' = out.warns
        /\ value' = values
        /\ UNCHANGED <<start, fields, frames>>

\* split_bits on the merged bytes with the widths of the pairs
SplitMerged(consume, endianness) ==
    /\ call.op = "merge_bits"
    /\ SplitBits([i \in 1..Len(value) |-> value[i][2]], consume, endianness)

NextMerge ==
    \/ \E values \in PairLists, e \in Endians : MergeBits(values, e)
    \/ \E consume \in BOOLEAN, e \in Endians : SplitMerged(consume, e)

SpecMerge == InitField /\ [][NextMerge]_vars

\* C22: for every list of (value, width) pairs with widths >= 1, merge_bits
\* raises Overflow exactly when some value is negative or >= 2^width;
\* otherwise it returns ceil(sum of widths / 8) bytes and, when the sum is not
\* a multiple of 8, the unused high bits of the last byte are zero.
C22_MergeBits ==
    (call.op = "merge_bits" /\ KnownEndian)
        => LET pairs == call.args
               total == SumSeq([k \in 1..Len(pairs) |-> pairs[k][2]])
               unfit == \E k \in 1..Len(pairs) :
                            pairs[k][1] < 0 \/ pairs[k][1] >= 2^(pairs[k][2])
           IN  /\ (err = "OverflowError") <=> unfit
               /\ ~unfit =>
                     /\ err = "none"
                     /\ Len(ret) = (total + 7) \div 8
                     /\ total % 8 # 0 => ret[Len(ret)] < 2^(total % 8)

\* the pairs in value fit their widths and fill whole bytes
WholeBytePairs ==
    /\ \A k \in 1..Len(value) : value[k][1] >= 0 /\ value[k][1] < 2^(value[k][2])
    /\ SumSeq([k \in 1..Len(value) |-> value[k][2]]) % 8 = 0

\* split_bits was called with endianness e on the bytes merge_bits returns
\* for the pairs in value with endianness e, with the widths of the pairs
SplitOfMerged(e) ==
    /\ call.op = "split_bits"
    /\ call.endianness = e
    /\ Len(value) > 0
    /\ call.widths = [k \in 1..Len(value) |-> value[k][2]]
    /\ merge_bits(value, e).err = "none"
    /\ pre = merge_bits(value, e).ret

\* C27: little-endian round trip: for pairs (v_i, w_i) with w_i >= 1,
\* 0 <= v_i < 2^w_i and a sum of widths that is a multiple of 8, split_bits
\* with the widths w_i and endianness little applied to
\* merge_bits(pairs, little) returns the values v_i.
C27_LittleRoundTrip ==
    (SplitOfMerged("little") /\ WholeBytePairs)
        => (err = "none" /\ ret = [k \in 1..Len(value) |-> value[k][1]])

C27_Witness ==
    /\ SplitOfMerged("little")
    /\ value = <<<<5, 4>>, <<1445, 12>>>>
    /\ pre = <<85, 90>>
    /\ ret = <<5, 1445>>

\* C28: big-endian round trip: for pairs (v_i, w_i) with w_i >= 1,
\* 0 <= v_i < 2^w_i and a sum of widths that is a multiple of 8, pairs that
\* start inside a byte and cross a byte boundary included, split_bits with
\* the widths w_i and endianness big applied to merge_bits(pairs, big)
\* returns the values v_i.
C28_BigRoundTrip ==
    (SplitOfMerged("big") /\ WholeBytePairs)
        => (err = "none" /\ ret = [k \in 1..Len(value) |-> value[k][1]])

----------------------------------------------------------------------------
(* to_bytes of a BlockListField whose list holds blocks of class A. The    *)
(* blocks are of subclasses of ProtocolBlock whose to_bytes merges their   *)
(* integer fields with merge_int_fields.                                   *)

\* bintools.merge_bits([(f.value, f.bit_length) for f in fields])
merge_int_fields(fs) == merge_bits([i \in 1..Len(fs) |-> <<fs[i].value, BIT_LENGTH>>], "little")

\* to_bytes of a block: its fields, all IntFields, merged in declaration order
ProtocolBlock_to_bytes(b) == merge_int_fields(b.fields)

\* obj.name: the attributes of a block are those of its record
getattr(obj, name) ==
    IF name \in DOMAIN obj THEN Returns(<<obj[name]>>, <<>>, 0)
    ELSE Raises("AttributeError", <<>>, 0)

\* for f in self.value: mybytes += f.value.to_bytes()
RECURSIVE BlockListField_to_bytes_loop(_, _)
BlockListField_to_bytes_loop(fs, mybytes) ==
    IF fs = <<>> THEN Returns(mybytes, <<>>, 0)
    ELSE LET attr == getattr(Head(fs), "value")
         IN  IF attr.err # "none" THEN attr
             ELSE LET bytes == IntField_to_bytes(attr.ret[1].value)
                  IN  IF bytes.err # "none" THEN bytes
                      ELSE BlockListField_to_bytes_loop(Tail(fs), mybytes \o bytes.ret)

BlockListField_to_bytes(values) == BlockListField_to_bytes_loop(values, <<>>)

\* the blocks of the lists: of class A or A1, with up to two IntFields
ListedBlocks ==
    { Block(c, fs) : c \in {"A", "A1"},
                     fs \in { <<>>, <<Entry("a", "IntField", 7, <<>>)>>,
                              <<Entry("a", "IntField", 7, <<>>), Entry("b", "IntField", 203, <<>>)>> } }

InitBlockListBytes ==
    /\ stream = <<>>
    /\ pre = <<>>
    /\ start = <<>>
    /\ call = NoCall
    /\ ret = <<>>
    /\ err = "none"
    /\ warns = 0
    /\ value \in {l \in SeqsUpTo(ListedBlocks, MaxList) : BlockListField_validate(l).err = "none"}
    /\ fields = <<>>
    /\ frames = <<>>

BlockListToBytes ==
    /\ FieldCall([NoCall EXCEPT !.op = "BlockListField.to_bytes"], BlockListField_to_bytes(value))
    /\ UNCHANGED value

NextBlockListBytes == BlockListToBytes

SpecBlockListBytes == InitBlockListBytes /\ [][NextBlockListBytes]_vars

\* b0.to_bytes() + ... + bk.to_bytes()
RECURSIVE ConcatBlocks(_)
ConcatBlocks(bs) ==
    IF bs = <<>> THEN <<>> ELSE ProtocolBlock_to_bytes(Head(bs)).ret \o ConcatBlocks(Tail(bs))

\* C23: to_bytes of a BlockList field holding the blocks [b0, ..., bk], each
\* of the declared element type, returns the concatenation
\* b0.to_bytes() + ... + bk.to_bytes() in list order, and the empty byte
\* sequence for an empty list.
C23_BlockListToBytes ==
    call.op = "BlockListField.to_bytes" => (err = "none" /\ ret = ConcatBlocks(value))

----------------------------------------------------------------------------
(* Reads with an endianness that is neither big nor little *)

\* C24: get_int and split_bits called in consuming mode with an endianness
\* token other than "big" or "little" fail with a configuration error (the
\* NameError of _order_bytes, the ValueError of int.from_bytes) and leave
\* the buffer equal to its content before the call. Stated for the calls
\* whose bytes the buffer holds, so that no under-run comes first.
C24_UnknownEndianUntouched ==
    (/\ call.op \in {"get_int", "split_bits"} /\ call.consume /\ ~KnownEndian
     /\ call.op = "get_int" => call.n \in 1..Len(pre)
     /\ call.op = "split_bits" => SumSeq(call.widths) \in 1..(8 * Len(pre)))
        => (err \in {"NameError", "ValueError"} /\ stream = pre)

----------------------------------------------------------------------------
(* TimeField.pack of the text TimeField.enrich returns *)

\* C25: Time pack is the inverse of Time enrich: for every raw r in
\* 0..86399, pack applied to the clock text that enrich produces for r
\* returns r (pack of "01:01:01" is 3661), without error.
C25_TimePackInverse ==
    (call.op = "TimeField.pack" /\ value \in 0..86399)
        => (err = "none" /\ ret = <<value>>)

----------------------------------------------------------------------------
(* The bytes a consuming split_bits takes *)

\* s without its first k bytes
Suffix(s, k) == SubSeq(s, k + 1, Len(s))

\* C26: after a successful consuming split_bits with widths W on a buffer B
\* the buffer equals B without its first ceil(sum(W)/8) bytes, the remaining
\* bytes unchanged and in order; so when the buffer before the call was the
\* original of the decode without its first j bytes, it is afterwards the
\* original without its first j + ceil(sum(W)/8) bytes.
C26_SplitConsumesPrefix ==
    [][ (call'.op = "split_bits" /\ call'.consume /\ err' = "none")
            => LET taken == (SumSeq(call'.widths) + 7) \div 8
               IN  /\ stream' = Suffix(stream, taken)
                   /\ \A j \in 0..Len(start) :
                         stream = Suffix(start, j) => stream' = Suffix(start', j + taken) ]_vars

C26_Witness ==
    /\ call.op = "split_bits"
    /\ call.consume
    /\ call.widths = <<3>>
    /\ err = "none"
    /\ warns = 1
    /\ start = <<203, 223>>
    /\ pre = <<223>>
    /\ stream = <<>>

----------------------------------------------------------------------------
(* split_bits, little-endian, against a slicer of one integer *)

\* the little-endian unsigned integer of the bytes bs
RECURSIVE LittleUnsigned(_)
LittleUnsigned(bs) == IF bs = <<>> THEN 0 ELSE Head(bs) + 256 * LittleUnsigned(Tail(bs))

----------------------------------------------------------------------------
(* A field of one of the integer classes: constructed with a value, its    *)
(* value assigned, its bytes taken                                          *)

FieldClasses == {"IntField", "ReservedField", "TimeField", "DateTimeField"}

\* clock texts: 01:01:01, 1:1:1, 23:59:59, and 24:00:00 and 00:00:61, which
\* strptime rejects
ClockTexts ==
    { <<"0", "1", ":", "0", "1", ":", "0", "1">>,
      <<"1", ":", "1", ":", "1">>,
      <<"2", "3", ":", "5", "9", ":", "5", "9">>,
      <<"2", "4", ":", "0", "0", ":", "0", "0">>,
      <<"0", "0", ":", "0", "0", ":", "6", "1">> }

\* date texts: 2010-01-01 00:00:00, 2099-9-18 23:59:59, 2012-02-29 0:0:0,
\* and 2010-02-30 00:00:00, 10-01-01 00:00:00 and 2010-13-01 00:00:00, which
\* strptime rejects
DateTexts ==
    { <<"2", "0", "1", "0", "-", "0", "1", "-", "0", "1", " ", "0", "0", ":", "0", "0", ":", "0", "0">>,
      <<"2", "0", "9", "9", "-", "9", "-", "1", "8", " ", "2", "3", ":", "5", "9", ":", "5", "9">>,
      <<"2", "0", "1", "2", "-", "0", "2", "-", "2", "9", " ", "0", ":", "0", ":", "0">>,
      <<"2", "0", "1", "0", "-", "0", "2", "-", "3", "0", " ", "0", "0", ":", "0", "0", ":", "0", "0">>,
      <<"1", "0", "-", "0", "1", "-", "0", "1", " ", "0", "0", ":", "0", "0", ":", "0", "0">>,
      <<"2", "0", "1", "0", "-", "1", "3", "-", "0", "1", " ", "0", "0", ":", "0", "0", ":", "0", "0">> }

\* the values offered to a field of the class cls; the ints offered to a
\* DateTimeField stay below 2^31
FieldInputs(cls) ==
    CASE cls = "IntField" ->
            {IntObj(n) : n \in {BIT_LENGTH_MINIMUM - 1, BIT_LENGTH_MINIMUM, 7,
                                BIT_LENGTH_MAXIMUM, BIT_LENGTH_MAXIMUM + 1}}
            \cup {StrObj(t) : t \in ClockTexts}
      [] cls = "ReservedField" ->
            {IntObj(n) : n \in {-1, 0, 1, 2^size - 1, 2^size, 2^size + 1}}
      [] cls = "TimeField" ->
            {IntObj(n) : n \in {-1, 0, 3661, TimeField_MAXIMUM, TimeField_MAXIMUM + 1,
                                INVALID_TIME - 1, INVALID_TIME, INVALID_TIME + 1}}
            \cup {StrObj(t) : t \in ClockTexts \cup {INVALID_TIME_TEXT}}
            \cup {PointInTime(0, 3661)}
      [] cls = "DateTimeField" ->
            {IntObj(n) : n \in {-1, 0, 3661, 2^TIME_BIT_LENGTH + MAX_TIME + 1,
                                2^(DateTimeField_BIT_LENGTH - 2),
                                2^(DateTimeField_BIT_LENGTH - 2) - 1 + 2^(DateTimeField_BIT_LENGTH - 2)}}
            \cup {StrObj(t) : t \in DateTexts \cup ClockTexts}
            \cup {PointInTime(0, -1), PointInTime(0, 0), PointInTime(MAX_DATE, MAX_TIME),
                  PointInTime(MAX_DATE, MAX_TIME + 1)}

\* the field after Field.__init__(value), which assigns self.value = value
InitStore ==
    /\ stream = <<>>
    /\ pre = <<>>
    /\ start = <<>>
    /\ \E cls \in FieldClasses : \E val \in FieldInputs(cls) :
          /\ Field_validate(cls, val).err = "none"
          /\ call = [NoCall EXCEPT !.op = "Field.__init__", !.args = <<cls, val>>]
          /\ value = Field_validate(cls, val).ret[1]
          /\ warns = Field_validate(cls, val).warns
    /\ ret = <<>>
    /\ err = "none"
    /\ fields = <<>>
    /\ frames = <<>>

\* Field.__setattr__("value", val): validate(val) runs before the store
StoreValue(val) ==
    LET cls == call.args[1]
        out == Field_validate(cls, val)
    IN  /\ FieldCall([NoCall EXCEPT !.op = "Field.value=", !.args = <<cls, val>>], out)
        /\ value' = IF out.err = "none" THEN out.ret[1] ELSE value

StoreToBytes ==
    LET cls == call.args[1]
    IN  /\ FieldCall([NoCall EXCEPT !.op = "Field.to_bytes", !.args = <<cls>>],
                     Field_to_bytes(cls, value))
        /\ UNCHANGED value

NextStore ==
    \/ \E val \in FieldInputs(call.args[1]) : StoreValue(val)
    \/ StoreToBytes

SpecStore == InitStore /\ [][NextStore]_vars

\* C30: every value that a field accepts can be serialized: for Int,
\* Reserved, Time and DateTime fields, after any successful construction or
\* assignment (of any input the validate of the field accepts, text and
\* point-in-time inputs for Time and DateTime included), the stored raw
\* value is an integer and to_bytes returns ceil(bit width / 8) bytes
\* without error.
C30_AcceptedSerializes ==
    call.op = "Field.to_bytes" =>
        /\ value.type = "int"
        /\ err = "none"
        /\ Len(ret) = (Field_bit_length(call.args[1]) + 7) \div 8

====
